---- MODULE Spec2Model ----
(***************************************************************************)
(* services-manager-tui: the event-driven application shell.               *)
(*                                                                         *)
(* Two execution contexts share one mpsc channel: the key listener thread  *)
(* (spawn_key_event_listener) and the foreground loop (App::run), which    *)
(* owns the view state: status, the Filter editor, the TableServices list  *)
(* and the ServiceDetails view.  A third producer, the details view's      *)
(* refresh thread, sends Actions::RefreshLog.                              *)
(*                                                                         *)
(* Strings are modelled as sequences of UTF-8 bytes, as Rust's String is;  *)
(* the editor's cursor counts codepoints.                                  *)
(***************************************************************************)
EXTENDS Integers, Sequences, FiniteSets, TLC

\* ------------------------------------------------------------------ bounds
\* Number of terminal input events the user produces in a run.
MaxPresses == 3
\* Number of events in flight at a time: terminal input not yet read plus
\* events in the channel sent by the listener or the refresh thread.
MaxInFlight == 2
\* Number of editing operations applied to the filter editor on its own.
MaxEdits == 5
\* Key presses of the user who types into the list view and its filter.
MaxKeys == 6
\* Key presses of the user who scrolls the details view.
MaxScrolls == 4
\* Operations applied to the details view on its own.
MaxDetailsOps == 4

\* --------------------------------------------------------------- constants
\* u16::MAX, the largest value of ServiceDetails::scroll.
U16Max == 65535
\* Rows moved by PageUp / PageDown in the details view.
PageStep == 10
\* Rows moved by PageUp / PageDown in the list view.
ListPageStep == 10

\* ------------------------------------------------------------------ strings
\* Codepoints used by the model: 'c' 'i' 'q' 'v' and the two-byte U+00E9.
Ch_c == 99
Ch_upper_C == 67
Ch_i == 105
Ch_q == 113
Ch_v == 118
Ch_eacute == 233

\* char::encode_utf8 for codepoints below U+0800.
EncodeUtf8(c) ==
  IF c < 128 THEN <<c>> ELSE <<192 + (c \div 64), 128 + (c % 64)>>

\* A byte that continues a multi-byte character (10xxxxxx).
IsContinuation(b) == b >= 128 /\ b < 192

\* str::char_indices().map(|(i, _)| i): the 0-based byte offsets at which a
\* character starts.
RECURSIVE CharIndicesFrom(_, _)
CharIndicesFrom(bytes, i) ==
  IF i > Len(bytes) THEN <<>>
  ELSE IF IsContinuation(bytes[i]) THEN CharIndicesFrom(bytes, i + 1)
  ELSE <<i - 1>> \o CharIndicesFrom(bytes, i + 1)

CharIndices(bytes) == CharIndicesFrom(bytes, 1)

\* str::chars().count()
CharsCount(bytes) == Len(CharIndices(bytes))

\* str::chars(): the sequence of characters, each kept as its UTF-8 bytes.
Chars(bytes) ==
  LET idx == CharIndices(bytes)
  IN [k \in 1..Len(idx) |->
        SubSeq(bytes, idx[k] + 1,
               IF k < Len(idx) THEN idx[k + 1] ELSE Len(bytes))]

\* Iterator::take(k) and Iterator::skip(k): the first k elements and the
\* elements after them; all of them and none when there are fewer than k.
Take(seq, k) == SubSeq(seq, 1, IF k < Len(seq) THEN k ELSE Len(seq))
Skip(seq, k) == SubSeq(seq, (IF k < Len(seq) THEN k ELSE Len(seq)) + 1, Len(seq))

\* Iterator::collect::<String>() of a sequence of characters.
RECURSIVE Collect(_)
Collect(chars) ==
  IF chars = <<>> THEN <<>> ELSE Head(chars) \o Collect(Tail(chars))

\* String::insert(idx, ch) at a 0-based byte offset.
StringInsert(bytes, idx, c) ==
  SubSeq(bytes, 1, idx) \o EncodeUtf8(c) \o SubSeq(bytes, idx + 1, Len(bytes))

\* usize::clamp(lo, hi)
Clamp(x, lo, hi) == IF x < lo THEN lo ELSE IF x > hi THEN hi ELSE x

\* usize / u16 saturating_sub
SaturatingSub(x, n) == IF x < n THEN 0 ELSE x - n

\* Option<T>
None == [some |-> FALSE]
Some(x) == [some |-> TRUE, val |-> x]

\* str::contains on the bytes of two strings.
Contains(hay, needle) ==
  \E i \in 0..(Len(hay) - Len(needle)) :
    SubSeq(hay, i + 1, i + Len(needle)) = needle

\* --------------------------------------------------------------- key events
\* crossterm KeyEvent: code, the character of KeyCode::Char, and whether the
\* modifiers are exactly KeyModifiers::CONTROL.
Key(code, ch, ctrl) == [code |-> code, ch |-> ch, ctrl |-> ctrl]
CharKey(c) == Key("Char", c, FALSE)
PlainKey(code) == Key(code, 0, FALSE)
CtrlC == Key("Char", Ch_c, TRUE)

PlainCodes ==
  {"Esc", "Enter", "Backspace", "Left", "Right", "Up", "Down", "PageUp",
   "PageDown"}

Keys ==
  {CtrlC} \cup {CharKey(c) : c \in {Ch_i, Ch_q, Ch_v, Ch_eacute}}
          \cup {PlainKey(code) : code \in PlainCodes}

\* What event::read() can return: a key event of kind Press, or an event the
\* listener drops (a key Release/Repeat, or a non-key event).
TtyEvents ==
  [kind : {"Press"}, key : Keys] \cup [kind : {"Release"}, key : {CharKey(Ch_q)}]

\* AppEvent
KeyEv(k) == [type |-> "Key", key |-> k, action |-> "-"]
ActionEv(a) == [type |-> "Action", key |-> PlainKey("-"), action |-> a]
\* AppEvent::Error(message), as details.rs names it
ErrorEv(e) == [type |-> "Error", key |-> PlainKey("-"), action |-> e]

\* ------------------------------------------------------------------ backend
\* str::ends_with on the bytes of two strings.
EndsWith(str, suffix) ==
  /\ Len(suffix) <= Len(str)
  /\ SubSeq(str, Len(str) - Len(suffix) + 1, Len(str)) = suffix

\* ".service"
DotService == <<46, 115, 101, 114, 118, 105, 99, 101>>

\* The units systemd's ListUnits reports on a host, each with its name and
\* description: "vi.service" ("c"), "q.socket" ("q") and "q.service" ("é").
HostUnits ==
  << [name |-> <<118, 105, 46, 115, 101, 114, 118, 105, 99, 101>>,
      description |-> <<Ch_c>>],
     [name |-> <<113, 46, 115, 111, 99, 107, 101, 116>>,
      description |-> <<Ch_q>>],
     [name |-> <<113, 46, 115, 101, 114, 118, 105, 99, 101>>,
      description |-> EncodeUtf8(Ch_eacute)] >>

\* SystemdServiceAdapter::list_services on success: the units whose name ends
\* with ".service", in the order reported, each as a Service.
list_services(units) ==
  SelectSeq(units, LAMBDA u : EndsWith(u.name, DotService))

\* The services of the host above, and what list_services() may return: the
\* list of a host with no unit, and the list of that host.
BackendServices == list_services(HostUnits)
BackendSnapshots == {list_services(<<>>), BackendServices}

\* Outcomes of running journalctl in get_service_log.
JournalOutcomes == {"spawn_error", "exit_success", "exit_failure"}
\* Outcomes of list_services().
ListOutcomes == {"ok", "err"}
\* Outcomes of systemctl_cat().
CatOutcomes == {"ok", "err"}
\* Overflow checks of the build: on (debug profile) or off (release profile).
Builds == {"debug", "release"}

\* SystemdServiceAdapter::get_service_log: Err only when the command cannot be
\* run; a non-zero exit yields Ok with the command's stderr.
get_service_log(o) ==
  IF o = "spawn_error" THEN [ok |-> FALSE, log |-> ""]
  ELSE IF o = "exit_success" THEN [ok |-> TRUE, log |-> "stdout"]
  ELSE [ok |-> TRUE, log |-> "stderr"]

\* ------------------------------------------------------------ TableServices
\* The operators below act on a record s of the foreground's state:
\*   running, status                               (App)
\*   input, character_index, input_mode, table_service   (Filter)
\*   services, filtered, selected, ignore_key_events   (TableServices)
\*   service, unit_file, scroll                    (ServiceDetails)
\*   sent      events the handler has sent on the channel, in order
\*   calls, failures, notices   backend calls made, failed and reported to
\*                              the user while handling the current event
\*   panicked  the handler aborted on an arithmetic overflow

\* The services a predicate keeps: substring of the name or of the description;
\* the empty predicate keeps all.
ApplyFilter(services, predicate) ==
  SelectSeq(services,
            LAMBDA sv : Contains(sv.name, predicate)
                        \/ Contains(sv.description, predicate))

\* Position of the service called name in a list, or None.
IndexOfName(list, name) ==
  IF \E i \in 1..Len(list) : list[i].name = name
  THEN Some((CHOOSE i \in 1..Len(list) : list[i].name = name) - 1)
  ELSE None

\* TableServices::get_selected_service
get_selected_service(s) ==
  IF s.selected.some /\ s.selected.val < Len(s.filtered)
  THEN Some(s.filtered[s.selected.val + 1])
  ELSE None

\* The handler enters a backend call: the state it has made so far is the
\* one the program is in while the call runs.  (Of the calls of one handler
\* the first is recorded.)
enter_backend(s) == [s EXCEPT !.entered = IF @.some THEN @ ELSE Some(s)]

\* TableServices::toogle_ignore_key_events
toogle_ignore_key_events(s, flag) == [s EXCEPT !.ignore_key_events = flag]

\* A refresh that applies the predicate and keeps the selected index as it is.
refresh_keeps_index(s, predicate, r) ==
  [enter_backend(s) EXCEPT !.filtered = ApplyFilter(s.services, predicate),
            !.calls = @ + 1,
            !.refreshed = Append(@, predicate),
            !.failures = IF r = "err" THEN @ + 1 ELSE @,
            !.notices = IF r = "err" THEN @ + 1 ELSE @]

\* TableServices::refresh(filter): one list_services() call (outcome r), which
\* returns the host's unchanged snapshot; on failure the previous full set is
\* kept and the failure is reported once.  The
\* predicate is applied and the selection re-validated: the selected service is
\* kept if it is still listed, else index 0, or none if nothing is listed.
refresh(s, predicate, r) ==
  LET old == get_selected_service(s)
      new == ApplyFilter(s.services, predicate)
      kept == IF old.some THEN IndexOfName(new, old.val.name) ELSE None
      sel == IF kept.some THEN kept
             ELSE IF Len(new) > 0 THEN Some(0) ELSE None
  IN [enter_backend(s) EXCEPT !.filtered = new,
               !.selected = sel,
               !.calls = @ + 1,
               !.refreshed = Append(@, predicate),
               !.failures = IF r = "err" THEN @ + 1 ELSE @,
               !.notices = IF r = "err" THEN @ + 1 ELSE @]

\* TableServices::on_key_event: nothing while ignore_key_events is set;
\* otherwise Up/Down/PageUp/PageDown move the selection inside the list.
table_on_key_event(s, key) ==
  IF s.ignore_key_events \/ ~s.selected.some THEN s
  ELSE LET last == Len(s.filtered) - 1
           cur == s.selected.val
       IN CASE key.code = "Up" -> [s EXCEPT !.selected = Some(SaturatingSub(cur, 1))]
            [] key.code = "Down" -> [s EXCEPT !.selected = Some(Clamp(cur + 1, 0, last))]
            [] key.code = "PageUp" ->
                 [s EXCEPT !.selected = Some(SaturatingSub(cur, ListPageStep))]
            [] key.code = "PageDown" ->
                 [s EXCEPT !.selected = Some(Clamp(cur + ListPageStep, 0, last))]
            [] OTHER -> s

\* ------------------------------------------------------------------- Filter
\* A clamp_cursor that bounds the cursor by the byte length of the input.
clamp_cursor_bytes(s, new_cursor_pos) == Clamp(new_cursor_pos, 0, Len(s.input))

\* Filter::clamp_cursor
clamp_cursor(s, new_cursor_pos) == Clamp(new_cursor_pos, 0, CharsCount(s.input))

\* Filter::move_cursor_left
move_cursor_left(s) ==
  [s EXCEPT !.character_index = clamp_cursor(s, SaturatingSub(@, 1))]

\* Filter::move_cursor_right
move_cursor_right(s) ==
  [s EXCEPT !.character_index = clamp_cursor(s, @ + 1)]

\* Filter::byte_index: byte offset of the character under the cursor, or the
\* byte length when the cursor is at or past the end.
byte_index(s) ==
  LET idx == CharIndices(s.input)
  IN IF s.character_index < Len(idx) THEN idx[s.character_index + 1]
     ELSE Len(s.input)

\* Filter::enter_char
enter_char(s, new_char) ==
  move_cursor_right(
    [s EXCEPT !.input = StringInsert(s.input, byte_index(s), new_char)])

\* A delete_char that removes the character under the cursor, wherever the
\* cursor is.
delete_char_at_cursor(s) ==
  LET chars == Chars(s.input)
      current_index == s.character_index
      before_char_to_delete == Take(chars, current_index)
      after_char_to_delete == Skip(chars, current_index + 1)
  IN move_cursor_left(
       [s EXCEPT !.input =
          Collect(before_char_to_delete \o after_char_to_delete)])

\* Filter::delete_char
delete_char(s) ==
  IF s.character_index # 0
  THEN LET chars == Chars(s.input)
           current_index == s.character_index
           from_left_to_current_index == current_index - 1
           before_char_to_delete == Take(chars, from_left_to_current_index)
           after_char_to_delete == Skip(chars, current_index)
       IN move_cursor_left(
            [s EXCEPT !.input =
               Collect(before_char_to_delete \o after_char_to_delete)])
  ELSE s

\* A submit that leaves Editing without asking the list view to refresh.
submit_message_no_refresh(s, r) ==
  [toogle_ignore_key_events(s, FALSE) EXCEPT !.input_mode = "Normal"]

\* Filter::submit_message: everything it does is inside
\* `if let Some(ts) = self.table_service`, the mode change included.
submit_message(s, r) ==
  IF s.table_service
  THEN [refresh(toogle_ignore_key_events(s, FALSE), s.input, r)
          EXCEPT !.input_mode = "Normal"]
  ELSE s

\* An 'i' arm that enters Editing without telling the list view.
filter_enter_editing_silent(s) == [s EXCEPT !.input_mode = "Editing"]

\* Filter::on_key_event, Normal mode, 'i'
filter_enter_editing(s) ==
  [(IF s.table_service THEN toogle_ignore_key_events(s, TRUE) ELSE s)
     EXCEPT !.input_mode = "Editing"]

\* Filter::on_key_event, Normal mode, Esc
filter_clear(s, r) ==
  LET cleared == [s EXCEPT !.input = <<>>]
  IN IF s.table_service
     THEN refresh(toogle_ignore_key_events(cleared, FALSE), cleared.input, r)
     ELSE cleared

\* A cancel that commits what was typed, as submit does.
filter_cancel_commits(s) ==
  [refresh(toogle_ignore_key_events(s, FALSE), s.input, "ok")
     EXCEPT !.input_mode = "Normal"]

\* Filter::on_key_event, Editing mode, Esc
filter_cancel(s) ==
  [(IF s.table_service THEN toogle_ignore_key_events(s, FALSE) ELSE s)
     EXCEPT !.input_mode = "Normal"]

\* Filter::on_key_event (every key the listener forwards has kind Press)
filter_on_key_event(s, key, r) ==
  IF s.input_mode = "Normal"
  THEN CASE key.code = "Char" /\ key.ch = Ch_i -> filter_enter_editing(s)
         [] key.code = "Esc" -> filter_clear(s, r)
         [] OTHER -> s
  ELSE CASE key.code = "Enter" -> submit_message(s, r)
         [] key.code = "Char" -> enter_char(s, key.ch)
         [] key.code = "Backspace" -> delete_char(s)
         [] key.code = "Left" -> move_cursor_left(s)
         [] key.code = "Right" -> move_cursor_right(s)
         [] key.code = "Esc" -> filter_cancel(s)
         [] OTHER -> s

\* ----------------------------------------------------------- ServiceDetails
\* Sender::send from the foreground: the receiver is owned by the running App,
\* so the send succeeds and the event is appended to the channel.
send(s, ev) == [s EXCEPT !.sent = Append(@, ev)]

\* ServiceDetails::reset
reset(s) == [s EXCEPT !.service = None, !.scroll = 0]

\* ServiceDetails::exit
exit(s) == send(s, ActionEv("GoList"))

\* `self.scroll += n` on a u16: an overflow aborts the thread when the build
\* checks overflows and wraps around when it does not.
scroll_add(s, n, build) ==
  IF s.scroll + n > U16Max
  THEN IF build = "debug" THEN [s EXCEPT !.panicked = TRUE]
       ELSE [s EXCEPT !.scroll = (s.scroll + n) % (U16Max + 1)]
  ELSE [s EXCEPT !.scroll = s.scroll + n]

\* An on_key_event whose Left/Right arms send GoLog without the reset.
details_on_key_event_no_reset(s, key, build) ==
  CASE key.code = "Right" -> send(s, ActionEv("GoLog"))
    [] key.code = "Left" -> send(s, ActionEv("GoLog"))
    [] key.code = "Up" -> [s EXCEPT !.scroll = SaturatingSub(@, 1)]
    [] key.code = "Down" -> scroll_add(s, 1, build)
    [] key.code = "PageUp" -> [s EXCEPT !.scroll = SaturatingSub(@, PageStep)]
    [] key.code = "PageDown" -> scroll_add(s, PageStep, build)
    [] key.code = "Char" /\ key.ch = Ch_q -> exit(reset(s))
    [] OTHER -> s

\* ServiceDetails::on_key_event
details_on_key_event(s, key, build) ==
  CASE key.code = "Right" -> send(reset(s), ActionEv("GoLog"))
    [] key.code = "Left" -> send(reset(s), ActionEv("GoLog"))
    [] key.code = "Up" -> [s EXCEPT !.scroll = SaturatingSub(@, 1)]
    [] key.code = "Down" -> scroll_add(s, 1, build)
    [] key.code = "PageUp" -> [s EXCEPT !.scroll = SaturatingSub(@, PageStep)]
    [] key.code = "PageDown" -> scroll_add(s, PageStep, build)
    [] key.code = "Char" /\ key.ch = Ch_q -> exit(reset(s))
    [] OTHER -> s

\* ServiceDetails::update: the view is pointed at a service; the text shown
\* and the scroll offset stay.  Nothing under src/ calls it.
update(s, name) == [s EXCEPT !.service = Some(name)]

\* ServiceDetails::fetch_unit_file (systemctl_cat outcome cat): with a service
\* set, Ok replaces the text shown and Err sends AppEvent::Error; the scroll
\* offset stays.  Nothing under src/ calls it.
fetch_unit_file(s, cat) ==
  IF s.service.some
  THEN IF cat = "ok" THEN [s EXCEPT !.unit_file = "unit text"]
       ELSE send(s, ErrorEv("systemctl_cat failed"))
  ELSE s

\* ServiceDetails::set_log_lines followed by set_service_name: the view shows
\* the content under the service's name, scrolled to the top.
show(s, name, content) ==
  [s EXCEPT !.unit_file = content, !.service = Some(name), !.scroll = 0]

\* ---------------------------------------------------------------------- App
\* A quit that leaves the running flag as it is.
quit_ignored(s) == s

\* App::quit
quit(s) == [s EXCEPT !.running = FALSE]

\* A log that opens the details view whatever the fetch returned.
log_unchecked(s, o) ==
  LET sel == get_selected_service(s)
  IN IF sel.some
     THEN LET res == get_service_log(o)
              called == [enter_backend(s) EXCEPT
                           !.calls = @ + 1,
                           !.failures = IF res.ok THEN @ ELSE @ + 1]
          IN [show(called, sel.val.name, res.log) EXCEPT !.status = "Details"]
     ELSE s

\* App::log: fetch the log of the selected service (journalctl outcome o); on
\* Ok fill the details view and switch to Details, on Err do nothing.
log(s, o) ==
  LET sel == get_selected_service(s)
  IN IF sel.some
     THEN LET res == get_service_log(o)
              called == [enter_backend(s) EXCEPT
                           !.calls = @ + 1,
                           !.failures = IF res.ok THEN @ ELSE @ + 1]
          IN IF res.ok
             THEN [show(called, sel.val.name, res.log) EXCEPT !.status = "Details"]
             ELSE called
     ELSE s

\* An on_key_event whose 'v' opens the log whatever the filter's mode is.
app_on_key_event_any_mode(s, key, o) ==
  CASE key.ctrl /\ key.code = "Char" /\ key.ch \in {Ch_c, Ch_upper_C} -> quit(s)
    [] key.code = "Char" /\ key.ch = Ch_v -> log(s, o)
    [] OTHER -> s

\* App::on_key_event
app_on_key_event(s, key, o) ==
  CASE key.ctrl /\ key.code = "Char" /\ key.ch \in {Ch_c, Ch_upper_C} -> quit(s)
    [] key.code = "Char" /\ key.ch = Ch_v ->
         IF s.input_mode = "Normal" THEN log(s, o) ELSE s
    [] OTHER -> s

\* App::run, the arm for AppEvent::Key while the status is Details.
run_key_details(s, key, o, build) ==
  details_on_key_event(app_on_key_event(s, key, o), key, build)

\* App::run, the arm for AppEvent::Key while the status is List.
run_key_list(s, key, o, r) ==
  filter_on_key_event(
    table_on_key_event(app_on_key_event(s, key, o), key), key, r)

\* The ignore_key_events flag at the moment TableServices::on_key_event is
\* called in the List arm.
run_key_ignore_seen(s, key, o) == app_on_key_event(s, key, o).ignore_key_events

\* Action arms whose RefreshLog fetches the log whatever the status is.
run_action_always_logs(s, action, o) ==
  CASE action = "GoList" -> [s EXCEPT !.status = "List"]
    [] action = "RefreshLog" -> log(s, o)
    [] OTHER -> s

\* App::run, the arms for AppEvent::Action.  Actions::GoLog, which the details
\* view sends on Left/Right, has no arm that changes the state.
run_action(s, action, o) ==
  CASE action = "GoList" -> [s EXCEPT !.status = "List"]
    [] action = "RefreshLog" -> IF s.status = "Details" THEN log(s, o) ELSE s
    [] OTHER -> s

\* App::run's match on the received event, as one function of the state.
handle(s, ev, o, r, build) ==
  IF ev.type = "Key"
  THEN IF s.status = "Details" THEN run_key_details(s, ev.key, o, build)
       ELSE run_key_list(s, ev.key, o, r)
  ELSE run_action(s, ev.action, o)

\* Whether handling ev in state s calls the backend (App::log's get_log or
\* the list view's refresh); the call is made whatever its outcome will be.
makes_backend_call(s, ev) ==
  handle(s, ev, "exit_success", "ok", "release").calls > 0

\* The state App::run has made when the handler of ev enters the backend:
\* what the handler did before the call is done, the rest is not.
entering_call(s, ev) ==
  handle(s, ev, "exit_success", "ok", "release").entered.val

\* A call that is started and left to complete on its own, the loop going on
\* from where it was.
during_call_detached(p) == p

\* Where App::run is while a backend call is in flight: the call is a plain
\* function call whose Command::output() waits for the child process, so the
\* foreground thread is inside it until it returns.
during_call(p) == "backend"

\* -------------------------------------------------------------------- state
VARIABLES
  running,            \* App::running
  status,             \* App::status: "List" or "Details"
  input,              \* Filter::input, as UTF-8 bytes
  character_index,    \* Filter::character_index, in codepoints
  input_mode,         \* Filter::input_mode: "Normal" or "Editing"
  table_service,      \* Filter::table_service is Some (set by App::init)
  services,           \* TableServices: the full set read from the backend
  filtered,           \* TableServices: the services listed
  selected,           \* TableServices: Option of an index into filtered
  ignore_key_events,  \* TableServices: set while the filter is being edited
  service,            \* ServiceDetails::service: Option of a service name
  unit_file,          \* ServiceDetails: the text displayed
  scroll,             \* ServiceDetails::scroll (u16)
  backend_calls,      \* calls to the backend that have not returned yet
  pc,                 \* App::run: "loop" (top of the while), "recv" (blocked in
                      \* recv), "backend" (inside a call to the backend),
                      \* "done" (returned Ok), "failed" (returned the Err
                      \* of a draw), "panicked" (unwound)
  event_queue,        \* the mpsc channel: the events in flight, oldest first
  tty,                \* terminal input not yet read by the listener
  listener,           \* the listener thread: "running" or "exited"
  npress,             \* input events produced by the user so far
  painted,            \* what the last terminal.draw put on the screen
  paints,             \* draws since the last event was received
  last                \* the last event handled, with the status and input mode
                      \* it was received in, the ignore_key_events flag the
                      \* list view saw, the backend calls it made and the
                      \* predicates it passed to the list view's refresh

appvars ==
  <<running, status, input, character_index, input_mode, table_service,
    services, filtered,
    selected, ignore_key_events, service, unit_file, scroll, backend_calls>>
vars ==
  <<running, status, input, character_index, input_mode, table_service,
    services, filtered,
    selected, ignore_key_events, service, unit_file, scroll, backend_calls, pc,
    event_queue, tty, listener, npress, painted, paints, last>>

\* The foreground's state as a record, at the start of an event's handling.
AppState ==
  [running |-> running, status |-> status, input |-> input,
   character_index |-> character_index, input_mode |-> input_mode,
   table_service |-> table_service,
   services |-> services, filtered |-> filtered, selected |-> selected,
   ignore_key_events |-> ignore_key_events, service |-> service,
   unit_file |-> unit_file, scroll |-> scroll,
   sent |-> <<>>, calls |-> 0, refreshed |-> <<>>, failures |-> 0,
   notices |-> 0, panicked |-> FALSE, entered |-> None]

\* The receiver lives as long as App::run has not returned (Ok or Err) or
\* unwound.
RxAlive == pc \in {"loop", "recv", "backend"}

\* What draw_list_status / draw_details_status render.
ViewOf(st, inp, mode, flt, sel, svc, text, scr) ==
  IF st = "Details"
  THEN [view |-> "Details", service |-> svc,
        text |-> IF svc.some THEN text ELSE "", scroll |-> scr]
  ELSE [view |-> "List", input |-> inp, input_mode |-> mode,
        filtered |-> flt, selected |-> sel]

View ==
  ViewOf(status, input, input_mode, filtered, selected, service, unit_file,
         scroll)

\* A send that coalesces an event with an equal one already at the tail.
Enqueue_coalescing(q, evs) ==
  IF q # <<>> /\ evs # <<>> /\ q[Len(q)] = evs[1] THEN q \o Tail(evs)
  ELSE q \o evs

\* mpsc Sender::send, for each of evs in order: appended to the channel.
Enqueue(q, evs) == q \o evs

\* Events in flight from the user and the refresh thread.
InFlight == Len(tty) + Len(event_queue)

NoEvent == [type |-> "None", key |-> PlainKey("-"), action |-> "-"]

\* App::new and App::init: List view, empty filter, the full list as read from
\* the backend with its first row selected if there is one, nothing in the
\* details view.
Init ==
  /\ running = TRUE
  /\ status = "List"
  /\ input = <<>>
  /\ character_index = 0
  /\ input_mode = "Normal"
  /\ table_service = TRUE
  /\ services \in BackendSnapshots
  /\ filtered = services
  /\ selected = IF Len(services) > 0 THEN Some(0) ELSE None
  /\ ignore_key_events = FALSE
  /\ service = None
  /\ unit_file = ""
  /\ scroll = 0
  /\ backend_calls = 0
  /\ pc = "loop"
  /\ event_queue = <<>>
  /\ tty = <<>>
  /\ listener = "running"
  /\ npress = 0
  /\ painted = [view |-> "None"]
  /\ paints = 0
  /\ last = [ev |-> NoEvent, status |-> "List", input_mode |-> "Normal",
             ignore_seen |-> FALSE, calls |-> 0, refreshed |-> <<>>,
             failures |-> 0, notices |-> 0]

\* ------------------------------------------------------------------ actions
\* The user produces a terminal input event, one of events.
UserInputOf(events) ==
  /\ npress < MaxPresses
  /\ InFlight < MaxInFlight
  /\ \E e \in events : tty' = Append(tty, e)
  /\ npress' = npress + 1
  /\ UNCHANGED <<appvars, pc, event_queue, listener, painted, paints, last>>

UserInput == UserInputOf(TtyEvents)

\* A listener that leaves its loop after a successful send as well.
ListenerForward_breaks ==
  /\ listener = "running"
  /\ tty # <<>>
  /\ Head(tty).kind = "Press"
  /\ RxAlive
  /\ event_queue' = event_queue \o <<KeyEv(Head(tty).key)>>
  /\ tty' = Tail(tty)
  /\ listener' = "exited"
  /\ UNCHANGED <<appvars, pc, npress, painted, paints, last>>

\* spawn_key_event_listener: poll reports input, read returns a key press and
\* the send succeeds.
ListenerForward ==
  /\ listener = "running"
  /\ tty # <<>>
  /\ Head(tty).kind = "Press"
  /\ RxAlive
  /\ event_queue' = Enqueue(event_queue, <<KeyEv(Head(tty).key)>>)
  /\ tty' = Tail(tty)
  /\ UNCHANGED <<appvars, pc, listener, npress, painted, paints, last>>

\* spawn_key_event_listener: read returns an event that is not a key press;
\* it is dropped.
ListenerSkip ==
  /\ listener = "running"
  /\ tty # <<>>
  /\ Head(tty).kind # "Press"
  /\ tty' = Tail(tty)
  /\ UNCHANGED <<appvars, pc, event_queue, listener, npress, painted, paints,
                 last>>

\* spawn_key_event_listener: the send of a key press fails because the
\* receiver is gone; the thread leaves its loop.
ListenerExit ==
  /\ listener = "running"
  /\ tty # <<>>
  /\ Head(tty).kind = "Press"
  /\ ~RxAlive
  /\ listener' = "exited"
  /\ tty' = Tail(tty)
  /\ UNCHANGED <<appvars, pc, event_queue, npress, painted, paints, last>>

\* The details view's refresh thread sends Actions::RefreshLog.
RefreshTick ==
  /\ InFlight < MaxInFlight
  /\ RxAlive
  /\ event_queue' = Enqueue(event_queue, <<ActionEv("RefreshLog")>>)
  /\ UNCHANGED <<appvars, pc, tty, listener, npress, painted, paints, last>>

\* App::run: `while self.running` holds; the active view is drawn and the loop
\* blocks in recv.
Draw ==
  /\ pc = "loop"
  /\ running
  /\ painted' = View
  /\ paints' = paints + 1
  /\ pc' = "recv"
  /\ UNCHANGED <<appvars, event_queue, tty, listener, npress, last>>

\* App::run: `while self.running` holds and terminal.draw returns Err; the `?`
\* returns it from run at once, with the running flag still set, and the App,
\* with the receiver, is dropped.
DrawFail ==
  /\ pc = "loop"
  /\ running
  /\ pc' = "failed"
  /\ UNCHANGED <<appvars, event_queue, tty, listener, npress, painted, paints,
                 last>>

\* App::run: `while self.running` fails; run returns Ok and the App, with the
\* receiver, is dropped.
Return ==
  /\ pc = "loop"
  /\ ~running
  /\ pc' = "done"
  /\ UNCHANGED <<appvars, event_queue, tty, listener, npress, painted, paints,
                 last>>

\* Receiver::recv: the oldest event in the channel and the events left.
recv(q) == [msg |-> Head(q), rest |-> Tail(q)]

\* A loop that goes back to recv after an event without drawing.
after_event_no_draw(s) == IF s.panicked THEN "panicked" ELSE "recv"

\* Where App::run continues after an event: back at the top of the loop,
\* unless the handler aborted.
after_event(s) == IF s.panicked THEN "panicked" ELSE "loop"

\* The state a handler leaves, with what it sent appended to the channel.
Commit(s, rest, ev, seen) ==
  /\ running' = s.running
  /\ status' = s.status
  /\ input' = s.input
  /\ character_index' = s.character_index
  /\ input_mode' = s.input_mode
  /\ table_service' = s.table_service
  /\ services' = s.services
  /\ filtered' = s.filtered
  /\ selected' = s.selected
  /\ ignore_key_events' = s.ignore_key_events
  /\ service' = s.service
  /\ unit_file' = s.unit_file
  /\ scroll' = s.scroll
  /\ backend_calls' = IF pc = "backend" THEN backend_calls - 1 ELSE backend_calls
  /\ event_queue' = Enqueue(rest, s.sent)
  /\ pc' = after_event(s)
  /\ paints' = 0
  /\ last' = [ev |-> ev, status |-> status, input_mode |-> input_mode,
              ignore_seen |-> seen, calls |-> s.calls,
              refreshed |-> s.refreshed, failures |-> s.failures,
              notices |-> s.notices]
  /\ UNCHANGED <<tty, listener, npress, painted>>

\* App::run: recv returns AppEvent::Key while the status is List, and its
\* handler makes no backend call.
HandleKeyList ==
  /\ pc = "recv"
  /\ event_queue # <<>>
  /\ recv(event_queue).msg.type = "Key"
  /\ status = "List"
  /\ ~makes_backend_call(AppState, recv(event_queue).msg)
  /\ \E o \in JournalOutcomes, r \in ListOutcomes :
       LET m == recv(event_queue)
           key == m.msg.key
       IN Commit(run_key_list(AppState, key, o, r), m.rest, m.msg,
                 run_key_ignore_seen(AppState, key, o))

\* App::run: recv returns AppEvent::Key while the status is Details, and its
\* handler makes no backend call.
HandleKeyDetails ==
  /\ pc = "recv"
  /\ event_queue # <<>>
  /\ recv(event_queue).msg.type = "Key"
  /\ status = "Details"
  /\ ~makes_backend_call(AppState, recv(event_queue).msg)
  /\ \E o \in JournalOutcomes, b \in Builds :
       LET m == recv(event_queue)
           key == m.msg.key
       IN Commit(run_key_details(AppState, key, o, b), m.rest, m.msg,
                 ignore_key_events)

\* App::run: recv returns AppEvent::Action, and its handler makes no backend
\* call.
HandleAction ==
  /\ pc = "recv"
  /\ event_queue # <<>>
  /\ recv(event_queue).msg.type = "Action"
  /\ ~makes_backend_call(AppState, recv(event_queue).msg)
  /\ \E o \in JournalOutcomes :
       LET m == recv(event_queue)
       IN Commit(run_action(AppState, m.msg.action, o), m.rest, m.msg,
                 ignore_key_events)

\* recv returns an event whose handler calls the backend: the event has left
\* the channel, the handler has run up to the call (the filter has cleared
\* its input on Esc and the list view's flag on Esc and Enter before refresh
\* is entered; App::log has changed nothing yet) and the call is in flight.
CallStart ==
  /\ pc = "recv"
  /\ event_queue # <<>>
  /\ makes_backend_call(AppState, recv(event_queue).msg)
  /\ LET s == entering_call(AppState, recv(event_queue).msg)
     IN /\ running' = s.running
        /\ status' = s.status
        /\ input' = s.input
        /\ character_index' = s.character_index
        /\ input_mode' = s.input_mode
        /\ table_service' = s.table_service
        /\ services' = s.services
        /\ filtered' = s.filtered
        /\ selected' = s.selected
        /\ ignore_key_events' = s.ignore_key_events
        /\ service' = s.service
        /\ unit_file' = s.unit_file
        /\ scroll' = s.scroll
  /\ pc' = during_call(pc)
  /\ backend_calls' = backend_calls + 1
  /\ event_queue' = recv(event_queue).rest
  /\ last' = [ev |-> recv(event_queue).msg, status |-> status,
              input_mode |-> input_mode,
              ignore_seen |-> ignore_key_events,
              calls |-> 0, refreshed |-> <<>>, failures |-> 0, notices |-> 0]
  /\ UNCHANGED <<tty, listener, npress, painted, paints>>

\* The call returns (with one of its outcomes) and the rest of the handler
\* runs; what arrived in the channel meanwhile is still there.  The part of
\* a handler that precedes its call changes nothing that part reads, so the
\* handler applied to the state at the call leaves what the handler applied
\* to the state at recv leaves (HandlerResumes).
CallReturn ==
  /\ pc = "backend"
  /\ \E o \in JournalOutcomes, r \in ListOutcomes, b \in Builds :
       Commit(handle(AppState, last.ev, o, r, b), event_queue, last.ev,
              last.ignore_seen)

Next ==
  \/ UserInput
  \/ ListenerForward
  \/ ListenerSkip
  \/ ListenerExit
  \/ RefreshTick
  \/ Draw
  \/ DrawFail
  \/ Return
  \/ HandleKeyList
  \/ HandleKeyDetails
  \/ HandleAction
  \/ CallStart
  \/ CallReturn

Spec == Init /\ [][Next]_vars

\* The steps of the listener thread and of the foreground loop.
ListenerStep == ListenerForward \/ ListenerSkip \/ ListenerExit
LoopStep ==
  \/ Draw
  \/ DrawFail
  \/ Return
  \/ HandleKeyList
  \/ HandleKeyDetails
  \/ HandleAction
  \/ CallStart

\* The two threads are scheduled fairly: each takes a step when one stays
\* possible.  Nothing obliges the user to type, the refresh thread to tick or
\* a backend call to return.
FairSpec == Spec /\ WF_vars(ListenerStep) /\ WF_vars(LoopStep)

\* The shutdown on its own: the user's input is limited to the keys that open
\* and leave the details view and stop the loop, and to an event the listener
\* drops; the listener thread is scheduled fairly.
ShutdownEvents ==
  [kind : {"Press"}, key : {CtrlC, CharKey(Ch_v), CharKey(Ch_q)}]
    \cup [kind : {"Release"}, key : {CharKey(Ch_q)}]

ShutdownInput == UserInputOf(ShutdownEvents)

NextShutdown ==
  ShutdownInput \/ RefreshTick \/ ListenerStep \/ LoopStep \/ CallReturn

ShutdownSpec == Init /\ [][NextShutdown]_vars /\ WF_vars(ListenerStep)

\* ------------------------------------------------- the filter editor alone
\* The editor as entered with 'i' on a fresh App: Editing mode, empty input,
\* cursor 0.  Only its four editing operations are applied from there.
InitFilter ==
  /\ running = TRUE
  /\ status = "List"
  /\ input = <<>>
  /\ character_index = 0
  /\ input_mode = "Editing"
  /\ table_service = TRUE
  /\ services = BackendServices
  /\ filtered = services
  /\ selected = Some(0)
  /\ ignore_key_events = TRUE
  /\ service = None
  /\ unit_file = ""
  /\ scroll = 0
  /\ backend_calls = 0
  /\ pc = "recv"
  /\ event_queue = <<>>
  /\ tty = <<>>
  /\ listener = "running"
  /\ npress = 0
  /\ painted = View
  /\ paints = 1
  /\ last = [ev |-> KeyEv(CharKey(Ch_i)), status |-> "List",
             input_mode |-> "Normal", ignore_seen |-> FALSE, calls |-> 0,
             refreshed |-> <<>>, failures |-> 0, notices |-> 0]

\* The characters typed into the editor on its own: one-byte and two-byte.
EditChars == {Ch_v, Ch_eacute}

\* One editing operation, triggered by key, leaves the editor as in s.
Edit(s, key) ==
  /\ npress < MaxEdits
  /\ input' = s.input
  /\ character_index' = s.character_index
  /\ npress' = npress + 1
  /\ last' = [last EXCEPT !.ev = KeyEv(key), !.input_mode = "Editing",
                          !.ignore_seen = TRUE]
  /\ UNCHANGED <<running, status, input_mode, table_service, services,
                 filtered, selected,
                 ignore_key_events, service, unit_file, scroll,
                 backend_calls, pc, event_queue, tty, listener, painted,
                 paints>>

EditInsert == \E c \in EditChars : Edit(enter_char(AppState, c), CharKey(c))
EditDelete == Edit(delete_char(AppState), PlainKey("Backspace"))
EditLeft == Edit(move_cursor_left(AppState), PlainKey("Left"))
EditRight == Edit(move_cursor_right(AppState), PlainKey("Right"))

NextFilter == EditInsert \/ EditDelete \/ EditLeft \/ EditRight

SpecFilter == InitFilter /\ [][NextFilter]_vars

\* ------------------------------------------- the list view with its filter
\* The keys the filter editor and the list view react to while the status is
\* List: 'i', a one-byte and a two-byte character, and the editing, commit
\* and navigation keys.
EditorKeys ==
  {CharKey(Ch_i), CharKey(Ch_q), CharKey(Ch_eacute), PlainKey("Esc"),
   PlainKey("Enter"), PlainKey("Backspace"), PlainKey("Left"),
   PlainKey("Right"), PlainKey("Down")}

\* A user who presses the next key once the App waits in recv with nothing
\* in flight: the press is read by the listener and sent to the channel
\* (spawn_key_event_listener) before anything else happens.
EditorInput ==
  /\ pc = "recv"
  /\ InFlight = 0
  /\ listener = "running"
  /\ npress < MaxKeys
  /\ \E k \in EditorKeys : event_queue' = Enqueue(event_queue, <<KeyEv(k)>>)
  /\ npress' = npress + 1
  /\ UNCHANGED appvars
  /\ UNCHANGED <<pc, tty, listener, painted, paints, last>>

NextEditor ==
  EditorInput \/ Draw \/ DrawFail \/ HandleKeyList \/ CallStart \/ CallReturn

EditorSpec == Init /\ [][NextEditor]_vars

\* ------------------------------------------------- the details view scrolled
\* Offsets the details view is scrolled to when the keys below arrive: the
\* top, a few lines down, and within a page of the largest u16.
ScrollStarts == {0, PageStep + 5, U16Max - PageStep - 5}

\* The keys that scroll the details view.
ScrollKeys ==
  {PlainKey("Up"), PlainKey("Down"), PlainKey("PageUp"), PlainKey("PageDown")}

\* The App after 'v' opened the log of the first service and Down was held
\* until the view reached one of the offsets: status Details, waiting in recv.
InitScroll ==
  /\ running = TRUE
  /\ status = "Details"
  /\ input = <<>>
  /\ character_index = 0
  /\ input_mode = "Normal"
  /\ table_service = TRUE
  /\ services = BackendServices
  /\ filtered = services
  /\ selected = Some(0)
  /\ ignore_key_events = FALSE
  /\ service = Some(BackendServices[1].name)
  /\ unit_file = get_service_log("exit_success").log
  /\ scroll \in ScrollStarts
  /\ backend_calls = 0
  /\ pc = "recv"
  /\ event_queue = <<>>
  /\ tty = <<>>
  /\ listener = "running"
  /\ npress = 0
  /\ painted = View
  /\ paints = 1
  /\ last = [ev |-> KeyEv(IF scroll = 0 THEN CharKey(Ch_v) ELSE PlainKey("Down")),
             status |-> IF scroll = 0 THEN "List" ELSE "Details",
             input_mode |-> "Normal", ignore_seen |-> FALSE,
             calls |-> IF scroll = 0 THEN 1 ELSE 0, refreshed |-> <<>>,
             failures |-> 0, notices |-> 0]

\* A scroll key pressed once the App waits in recv with nothing in flight,
\* read by the listener and sent to the channel.
ScrollInput ==
  /\ pc = "recv"
  /\ InFlight = 0
  /\ listener = "running"
  /\ npress < MaxScrolls
  /\ \E k \in ScrollKeys : event_queue' = Enqueue(event_queue, <<KeyEv(k)>>)
  /\ npress' = npress + 1
  /\ UNCHANGED appvars
  /\ UNCHANGED <<pc, tty, listener, painted, paints, last>>

NextScroll == ScrollInput \/ Draw \/ DrawFail \/ HandleKeyDetails

ScrollSpec == InitScroll /\ [][NextScroll]_vars

\* ------------------------------------------------- the details view alone
\* ServiceDetails as ServiceDetails::new leaves it (no service, no text,
\* offset 0), with its public operations applied to it by the foreground
\* thread while the receiver lives.  App::run as found under src/ calls
\* on_key_event only; update and fetch_unit_file have no caller there.
InitDetails ==
  /\ running = TRUE
  /\ status = "Details"
  /\ input = <<>>
  /\ character_index = 0
  /\ input_mode = "Normal"
  /\ table_service = TRUE
  /\ services = BackendServices
  /\ filtered = services
  /\ selected = Some(0)
  /\ ignore_key_events = FALSE
  /\ service = None
  /\ unit_file = ""
  /\ scroll = 0
  /\ backend_calls = 0
  /\ pc = "recv"
  /\ event_queue = <<>>
  /\ tty = <<>>
  /\ listener = "running"
  /\ npress = 0
  /\ painted = View
  /\ paints = 1
  /\ last = [ev |-> NoEvent, status |-> "List", input_mode |-> "Normal",
             ignore_seen |-> FALSE, calls |-> 0, refreshed |-> <<>>,
             failures |-> 0, notices |-> 0]

\* The keys applied to the details view on its own: scrolling, and the two
\* ways of leaving it.
DetailsKeys ==
  {PlainKey("Down"), PlainKey("PageDown"), PlainKey("Up"), PlainKey("Left"),
   CharKey(Ch_q)}

\* One operation that makes no backend call leaves the details view as in s;
\* what it sent is in the channel.
DetailsOp(s) ==
  /\ pc = "recv"
  /\ npress < MaxDetailsOps
  /\ service' = s.service
  /\ unit_file' = s.unit_file
  /\ scroll' = s.scroll
  /\ event_queue' = Enqueue(event_queue, s.sent)
  /\ pc' = IF s.panicked THEN "panicked" ELSE pc
  /\ npress' = npress + 1
  /\ UNCHANGED <<running, status, input, character_index, input_mode,
                 table_service, services, filtered, selected,
                 ignore_key_events, backend_calls, tty, listener, painted,
                 paints, last>>

\* ServiceDetails::on_key_event
DetailsKey ==
  \E k \in DetailsKeys, b \in Builds :
    DetailsOp(details_on_key_event(AppState, k, b))

\* ServiceDetails::update, with one of the services listed
DetailsUpdate ==
  \E i \in 1 .. Len(services) : DetailsOp(update(AppState, services[i].name))

\* ServiceDetails::reset, called on its own
DetailsReset == DetailsOp(reset(AppState))

\* ServiceDetails::fetch_unit_file with no service set: nothing is fetched.
DetailsFetchIdle ==
  /\ ~service.some
  /\ \E cat \in CatOutcomes : DetailsOp(fetch_unit_file(AppState, cat))

\* ServiceDetails::fetch_unit_file with a service set: systemctl_cat is called.
DetailsFetchStart ==
  /\ pc = "recv"
  /\ npress < MaxDetailsOps
  /\ service.some
  /\ pc' = during_call(pc)
  /\ backend_calls' = backend_calls + 1
  /\ npress' = npress + 1
  /\ UNCHANGED <<running, status, input, character_index, input_mode,
                 table_service, services, filtered, selected,
                 ignore_key_events, service, unit_file, scroll, event_queue,
                 tty, listener, painted, paints, last>>

\* systemctl_cat returns: Ok replaces the text, Err is sent as AppEvent::Error.
DetailsFetchReturn ==
  /\ pc = "backend"
  /\ \E cat \in CatOutcomes :
       LET s == fetch_unit_file(AppState, cat)
       IN /\ unit_file' = s.unit_file
          /\ event_queue' = Enqueue(event_queue, s.sent)
  /\ pc' = "recv"
  /\ backend_calls' = backend_calls - 1
  /\ UNCHANGED <<running, status, input, character_index, input_mode,
                 table_service, services, filtered, selected,
                 ignore_key_events, service, scroll, tty, listener, npress,
                 painted, paints, last>>

NextDetails ==
  \/ DetailsKey
  \/ DetailsUpdate
  \/ DetailsReset
  \/ DetailsFetchIdle
  \/ DetailsFetchStart
  \/ DetailsFetchReturn

DetailsSpec == InitDetails /\ [][NextDetails]_vars

\* ------------------------------------------- backend calls as they are made
\* The keys that make backend calls ('v' opens the log, Esc clears the filter
\* and refreshes the list), with 'q' to leave the details view, Down, the
\* Ctrl+C that stops the loop, and an event the listener drops.
CallEvents ==
  [kind : {"Press"},
   key : {CharKey(Ch_v), CharKey(Ch_q), PlainKey("Esc"), PlainKey("Down"),
          CtrlC}]
    \cup [kind : {"Release"}, key : {CharKey(Ch_q)}]

CallInput == UserInputOf(CallEvents)

NextCall ==
  \/ CallInput
  \/ RefreshTick
  \/ ListenerForward
  \/ ListenerSkip
  \/ ListenerExit
  \/ Draw
  \/ DrawFail
  \/ Return
  \/ HandleKeyList
  \/ HandleKeyDetails
  \/ HandleAction
  \/ CallStart
  \/ CallReturn

CallSpec == Init /\ [][NextCall]_vars

\* The step that enters a backend call leaves a state from which the handler
\* gives, for every outcome, what it gives from the state the event was
\* received in.
HandlerResumes ==
  [][(pc = "recv" /\ pc' = "backend") =>
       \A o \in JournalOutcomes, r \in ListOutcomes, b \in Builds :
         handle(AppState', last'.ev, o, r, b)
           = handle(AppState, last'.ev, o, r, b)]_vars

\* =================================================================== claims
IsPrefix(a, b) == Len(a) <= Len(b) /\ SubSeq(b, 1, Len(a)) = a

\* The step in which recv returns an event.
Receiving == pc = "recv" /\ pc' # "recv"

\* The step in which the handler of the event received completes: at once if
\* it makes no backend call, and when the call returns if it makes one.
Handling ==
  \/ pc = "recv" /\ pc' \notin {"recv", "backend"}
  \/ pc = "backend" /\ pc' # "backend"

\* The event whose handler runs: the one in the backend call in flight, or
\* the oldest of the channel.
HasReceived == pc = "backend" \/ event_queue # <<>>
Received == IF pc = "backend" THEN last.ev ELSE Head(event_queue)

HandlingKey(k) == Handling /\ HasReceived /\ Received = KeyEv(k)
HandlingAction(a) == Handling /\ HasReceived /\ Received = ActionEv(a)

\* C1: the channel is FIFO with no coalescing: a step of the loop that receives
\* hands the handler exactly the oldest event and leaves the others in order
\* (followed by what the handler sent); every other step leaves the channel as
\* it is or appends one event to it; and every key press the listener reads
\* while the receiver lives is appended, also when it equals the event before.
C1_Fifo ==
  [][/\ Receiving =>
          /\ event_queue # <<>>
          /\ last'.ev = Head(event_queue)
          /\ IsPrefix(Tail(event_queue), event_queue')
     /\ ~Receiving =>
          /\ IsPrefix(event_queue, event_queue')
          /\ Len(event_queue') <= Len(event_queue) + 1
     /\ (tty # <<>> /\ tty' = Tail(tty) /\ Head(tty).kind = "Press" /\ RxAlive) =>
          event_queue' = Append(event_queue, KeyEv(Head(tty).key))]_vars

\* C1 witness: a key press was handled while an equal press, sent after it, is
\* still in the channel.
C1_Witness ==
  /\ last.ev.type = "Key"
  /\ event_queue # <<>>
  /\ event_queue[1] = last.ev

\* C2: after every sequence of enter_char, delete_char, move_cursor_left and
\* move_cursor_right from the empty input with cursor 0, the cursor is within
\* [0, number of codepoints of the input].
C2_CursorInBounds ==
  character_index >= 0 /\ character_index <= CharsCount(input)

\* C2 witness: the editor holds a two-byte and a one-byte character, and the
\* cursor, moved right at the end of the input, stays at the codepoint count,
\* below the byte length.
C2_Witness ==
  /\ input = EncodeUtf8(Ch_eacute) \o EncodeUtf8(Ch_v)
  /\ character_index = 2
  /\ Len(input) = 3
  /\ last.ev = KeyEv(PlainKey("Right"))

\* C3: when the list view is handed a key, its ignore_key_events flag is set
\* exactly if the filter was in Editing mode when the key was received; and a
\* key received in Editing mode, other than the Enter that commits the filter,
\* leaves the list and the selection as they were.
C3_EditingOwnsKeys ==
  [][(Handling /\ HasReceived /\ Received.type = "Key"
        /\ status = "List") =>
       /\ last'.ignore_seen <=> (input_mode = "Editing")
       /\ (input_mode = "Editing" /\ Received.key.code # "Enter") =>
            (selected' = selected /\ filtered' = filtered)]_vars

\* C3 witness: Down was handled in List mode while the filter was being
\* edited, the list view saw its flag set, and the first row is still selected
\* in a list of two.
C3_Witness ==
  /\ last.ev = KeyEv(PlainKey("Down"))
  /\ last.status = "List"
  /\ last.input_mode = "Editing"
  /\ last.ignore_seen
  /\ Len(filtered) = 2
  /\ selected = Some(0)

\* C4: a 'v' received in List mode with the filter in Normal mode leads to
\* Details exactly if a service is selected and the one log fetch made for it
\* succeeds, and otherwise leaves the status List; with the filter in Editing
\* mode it leaves the status unchanged and makes no backend call.
C4_ViewLogs ==
  [][(HandlingKey(CharKey(Ch_v)) /\ status = "List") =>
       IF input_mode = "Normal"
       THEN /\ status' = "Details" <=>
                 (get_selected_service(AppState).some
                    /\ last'.calls = 1 /\ last'.failures = 0)
            /\ status' \in {"List", "Details"}
            /\ (last'.failures > 0) => status' = "List"
            /\ ~get_selected_service(AppState).some => last'.calls = 0
       ELSE status' = status /\ last'.calls = 0]_vars

\* C4 witness: a 'v' received in List mode whose log fetch failed: the status
\* is still List.
C4_Witness ==
  /\ last.ev = KeyEv(CharKey(Ch_v))
  /\ last.status = "List"
  /\ last.input_mode = "Normal"
  /\ last.failures = 1
  /\ status = "List"

\* C5 (as claimed): an event during whose handling a backend call failed
\* produced exactly one error notification, made that call once, left the
\* controller loop running and left the view mode as it was.
C5_FailureSurfacedOnce ==
  [][(Handling /\ last'.failures > 0) =>
       /\ last'.notices = 1
       /\ last'.calls = 1
       /\ pc' = "loop"
       /\ running' = running
       /\ status' = status]_vars

\* C6 (as claimed, for the scroll offset and the selection): whenever GoList
\* was the last event processed and the status is List, the details view's
\* scroll offset is 0; and nothing done in Details mode changes the list or
\* its selection.
C6_GoListLeavesReset ==
  /\ []((last.ev = ActionEv("GoList") /\ status = "List") => scroll = 0)
  /\ [][status = "Details" => (selected' = selected /\ filtered' = filtered)]_vars

\* C7 (as claimed): a Left or Right received in Details mode resets the details
\* view and sends Actions::GoList.
C7_LeftRightGoList ==
  [][((HandlingKey(PlainKey("Left")) \/ HandlingKey(PlainKey("Right")))
        /\ status = "Details") =>
       /\ service' = None /\ scroll' = 0
       /\ event_queue' = Append(Tail(event_queue), ActionEv("GoList"))]_vars

\* C7 (amended): a Left or Right received in Details mode resets the details
\* view and sends Actions::GoLog, and nothing else; the status stays Details.
C7_LeftRightGoLog ==
  [][((HandlingKey(PlainKey("Left")) \/ HandlingKey(PlainKey("Right")))
        /\ status = "Details") =>
       /\ service' = None /\ scroll' = 0
       /\ event_queue' = Append(Tail(event_queue), ActionEv("GoLog"))
       /\ status' = "Details"]_vars

\* C7 witness: Left was handled in Details mode: the view is reset, still in
\* Details mode, and GoLog is the newest event in the channel.
C7_Witness ==
  /\ last.ev = KeyEv(PlainKey("Left"))
  /\ last.status = "Details"
  /\ status = "Details"
  /\ service = None
  /\ event_queue # <<>>
  /\ event_queue[Len(event_queue)] = ActionEv("GoLog")

\* C8: handling Ctrl+C clears the running flag, in any status and input mode;
\* and once the flag is clear the loop never blocks in recv again, nothing is
\* drawn, no event is taken from the channel and the state stays as it is.
C8_CtrlCStops ==
  [][/\ HandlingKey(CtrlC) => ~running'
     /\ ~running =>
          /\ pc' \in {"loop", "done"}
          /\ IsPrefix(event_queue, event_queue')
          /\ UNCHANGED <<appvars, painted, paints, last>>]_vars

\* C8 witness: Ctrl+C was received in List mode while the filter was being
\* edited; run has returned and an event is left in the channel.
C8_Witness ==
  /\ last.ev = KeyEv(CtrlC)
  /\ last.input_mode = "Editing"
  /\ pc = "done"
  /\ event_queue # <<>>

\* C9: whenever the loop is blocked in recv, the view was drawn exactly once
\* since the last event was handled, and what was drawn is the active view in
\* its present state.
C9_PaintBeforeRecv ==
  pc = "recv" => (paints = 1 /\ painted = View)

\* C9 witness: the loop is blocked in recv with Details drawn, after an event
\* received in List mode.
C9_Witness ==
  /\ pc = "recv"
  /\ last.status = "List"
  /\ painted.view = "Details"
  /\ paints = 1

\* C10 (as claimed): once the receiver is gone, a listener that has not exited
\* can take a step of its own towards its exit, with no further input.
C10_ExitsUnaided ==
  (~RxAlive /\ listener = "running") => ENABLED (ListenerSkip \/ ListenerExit)

\* C10 (amended): the listener exits only in a step in which it has read a key
\* press and the receiver is gone; and with the threads scheduled fairly,
\* whenever the receiver is gone and a key press is waiting in the terminal,
\* the listener eventually exits.
C10_ExitsOnNextPress ==
  /\ [][(listener = "running" /\ listener' = "exited") =>
          (~RxAlive /\ tty # <<>> /\ Head(tty).kind = "Press")]_vars
  /\ (~RxAlive /\ \E i \in 1..Len(tty) : tty[i].kind = "Press")
       ~> (listener = "exited")

\* C10 witness: run has returned and the listener has exited.
C10_Witness == pc = "done" /\ listener = "exited"

\* C11: each commit of the filter calls the list view's refresh exactly once,
\* with the filter text as it is after the commit.  Enter received in Editing
\* mode keeps the text, leaves the filter in Normal mode with the list view's
\* ignore_key_events flag cleared, and refreshes with that text; Esc received
\* in Normal mode empties the text and refreshes with the empty string.  The
\* list shown afterwards is the full set filtered by the text.
C11_CommitRefreshesOnce ==
  [][/\ (HandlingKey(PlainKey("Enter")) /\ status = "List"
           /\ input_mode = "Editing") =>
          /\ input' = input
          /\ input_mode' = "Normal"
          /\ ~ignore_key_events'
          /\ last'.refreshed = <<input'>>
          /\ last'.calls = 1
          /\ filtered' = ApplyFilter(services', input')
     /\ (HandlingKey(PlainKey("Esc")) /\ status = "List"
           /\ input_mode = "Normal") =>
          /\ input' = <<>>
          /\ input_mode' = "Normal"
          /\ ~ignore_key_events'
          /\ last'.refreshed = << <<>> >>
          /\ last'.calls = 1
          /\ filtered' = services']_vars

\* C11 witness: Enter was received in Editing mode with "q" typed, the one
\* refresh it made was passed "q", and the list went from two services to the
\* one that matches.
C11_Witness ==
  /\ last.ev = KeyEv(PlainKey("Enter"))
  /\ last.input_mode = "Editing"
  /\ input = <<Ch_q>>
  /\ last.refreshed = <<input>>
  /\ input_mode = "Normal"
  /\ Len(services) = 2
  /\ Len(filtered) = 1

\* C12: Esc received in Editing mode cancels: the filter goes to Normal mode
\* and the list view's ignore_key_events flag is cleared, but refresh is not
\* called and no backend call is made, so the list, the selection and the
\* full set stay as the last commit left them, whatever was typed since.
C12_CancelKeepsList ==
  [][(HandlingKey(PlainKey("Esc")) /\ status = "List"
        /\ input_mode = "Editing") =>
       /\ input_mode' = "Normal"
       /\ ~ignore_key_events'
       /\ last'.refreshed = <<>>
       /\ last'.calls = 0
       /\ filtered' = filtered
       /\ selected' = selected
       /\ services' = services]_vars

\* C12 witness: Esc was received in Editing mode after "q" was typed over a
\* committed empty filter: the filter is in Normal mode, and both services are
\* still listed although "q" matches only one of them.
C12_Witness ==
  /\ last.ev = KeyEv(PlainKey("Esc"))
  /\ last.input_mode = "Editing"
  /\ input_mode = "Normal"
  /\ ~ignore_key_events
  /\ input = <<Ch_q>>
  /\ Len(filtered) = 2

\* C13: delete_char with the cursor at 0 changes nothing: the input text and
\* the cursor are the same after it, whatever the text is.
C13_DeleteAtStartNoOp ==
  [][(npress' = npress + 1 /\ last'.ev = KeyEv(PlainKey("Backspace"))
        /\ character_index = 0) =>
       (input' = input /\ character_index' = 0)]_vars

\* C13 witness: Backspace was the fifth operation, and it left two characters
\* with the cursor at 0: four operations are needed to get two characters in
\* front of a cursor at 0, so the Backspace ran there.
C13_Witness ==
  /\ last.ev = KeyEv(PlainKey("Backspace"))
  /\ npress = 5
  /\ character_index = 0
  /\ CharsCount(input) = 2
  /\ Len(input) = 3

\* C14 (as claimed): a character c received in Editing mode with the cursor at
\* k turns the text into its first k codepoints, then c, then the rest, as a
\* well-formed string, and sets the cursor to k + 1.
C14_InsertAtCursor ==
  [][(Handling /\ HasReceived /\ Received.type = "Key"
        /\ Received.key.code = "Char"
        /\ status = "List" /\ input_mode = "Editing") =>
       LET old == Chars(input)
           k == character_index
           c == EncodeUtf8(Received.key.ch)
           new == Take(old, k) \o <<c>> \o Skip(old, k)
       IN /\ input' = Collect(new)
          /\ Chars(input') = new
          /\ character_index' = k + 1]_vars

\* C19 (as claimed): the filter's cursor is within 0 .. the number of
\* codepoints of the input text in every state, whichever keys the filter
\* received in either mode.
C19_CursorInBoundsAlways ==
  character_index \in 0 .. CharsCount(input)

\* C15 (as claimed): a scroll key received in Details mode leaves the status
\* Details and the loop running; Up and PageUp lower the offset by 1 and 10,
\* stopping at 0; Down and PageDown raise it by exactly 1 and 10, whatever the
\* offset is.
C15_ScrollKeys ==
  [][(Handling /\ HasReceived /\ Received \in
          {KeyEv(k) : k \in ScrollKeys} /\ status = "Details") =>
       LET code == Received.key.code
       IN /\ status' = "Details"
          /\ pc' = "loop"
          /\ code = "Up" => scroll' = SaturatingSub(scroll, 1)
          /\ code = "PageUp" => scroll' = SaturatingSub(scroll, PageStep)
          /\ code = "Down" => scroll' = scroll + 1
          /\ code = "PageDown" => scroll' = scroll + PageStep]_vars

\* C17: in every state the selection is none or an index into the list shown;
\* and a filter commit (Enter in Editing mode, Esc in Normal mode) whose
\* predicate excludes the service that was selected leaves the selection at 0
\* if the list shown is not empty and at none if it is.
C17_SelectionValid ==
  /\ [](selected.some => selected.val \in 0 .. Len(filtered) - 1)
  /\ [][((\/ HandlingKey(PlainKey("Enter")) /\ input_mode = "Editing"
          \/ HandlingKey(PlainKey("Esc")) /\ input_mode = "Normal")
         /\ status = "List"
         /\ get_selected_service(AppState).some
         /\ ~IndexOfName(filtered',
                         get_selected_service(AppState).val.name).some) =>
        selected' = IF Len(filtered') > 0 THEN Some(0) ELSE None]_vars

\* C17 witness: Enter committed "qq", which none of the two services matches:
\* nothing is listed and nothing is selected.
C17_Witness ==
  /\ last.ev = KeyEv(PlainKey("Enter"))
  /\ last.refreshed = <<<<Ch_q, Ch_q>>>>
  /\ Len(services) = 2
  /\ filtered = <<>>
  /\ selected = None

\* C20: whenever the status is Details, the filter is in Normal mode and the
\* list view's ignore_key_events flag is false.
C20_DetailsImpliesNormal ==
  status = "Details" => (input_mode = "Normal" /\ ~ignore_key_events)

\* C20 witness: the status is Details after three key presses, the last one
\* handled being a 'v' received in List mode, with the filter in Normal mode
\* and the flag false.
C20_Witness ==
  /\ status = "Details"
  /\ npress = 3
  /\ last.ev = KeyEv(CharKey(Ch_v))
  /\ last.status = "List"
  /\ input_mode = "Normal"
  /\ ~ignore_key_events

\* C18: at most one backend call is in flight, and only with the foreground
\* thread inside it; while it is in flight nothing is taken from the channel
\* (what arrives is appended behind what was there) and nothing of the App's
\* state or of the screen changes.  A call starts only when an event is
\* received with no call in flight; the handler of one event makes at most
\* one call, and when the call has returned the events that arrived during
\* it are all in the channel, in their order, behind those that were there.
C18_OneCallAtATime ==
  /\ [](backend_calls \in {0, 1} /\ (backend_calls = 1 <=> pc = "backend"))
  /\ [][backend_calls = 1 =>
          /\ IsPrefix(event_queue, event_queue')
          /\ pc' = "backend" =>
               (/\ last' = last
                /\ View' = View
                /\ painted' = painted
                /\ running' = running)]_vars
  /\ [][/\ backend_calls' > backend_calls =>
             (backend_calls = 0 /\ Receiving
                /\ last'.ev = Head(event_queue)
                /\ event_queue' = Tail(event_queue))
        /\ Handling => last'.calls = (IF pc = "backend" THEN 1 ELSE 0)
        /\ (Handling /\ pc = "backend") =>
             (backend_calls' = 0 /\ last'.ev = last.ev)]_vars

\* C18 witness: a log fetch is in flight for a 'v' and a key that arrived
\* meanwhile waits in the channel.
C18_Witness ==
  /\ backend_calls = 1
  /\ pc = "backend"
  /\ last.ev = KeyEv(CharKey(Ch_v))
  /\ event_queue # <<>>
  /\ Head(event_queue).type = "Key"

\* C21: a RefreshLog received while the status is List changes nothing: the
\* status stays List, no backend call is made, and the details view, the
\* list, its selection and the filter are as they were.  A RefreshLog that is
\* received after the GoList that left the details view therefore does not
\* bring the status back to Details.
C21_RefreshLogInListIgnored ==
  [][(HandlingAction("RefreshLog") /\ status = "List") =>
       /\ status' = "List"
       /\ last'.calls = 0
       /\ UNCHANGED appvars
       /\ pc = "recv" /\ pc' = "loop"
       /\ event_queue' = Tail(event_queue)]_vars

\* C21 witness: a RefreshLog was received in List mode after the details view
\* had been opened and left (it still holds the log text it showed, under no
\* service): the status is List.
C21_Witness ==
  /\ last.ev = ActionEv("RefreshLog")
  /\ last.status = "List"
  /\ last.calls = 0
  /\ status = "List"
  /\ ~service.some
  /\ unit_file # ""

\* The keys C22 is about: those the model's keyboard has besides the scroll
\* keys, Left/Right, 'q' and Ctrl+C.
OtherKeys ==
  Keys \ (ScrollKeys \cup {PlainKey("Left"), PlainKey("Right"),
                           CharKey(Ch_q), CtrlC})

\* C22 (as claimed): a key received in Details mode that is none of the
\* scroll keys, Left/Right, 'q' and Ctrl+C leaves the status, the details
\* view's content and scroll offset and the selection as they were, and makes
\* no backend call.
C22_OtherKeysNoOpInDetails ==
  [][(Handling /\ HasReceived /\ Received \in
          {KeyEv(k) : k \in OtherKeys} /\ status = "Details") =>
       /\ status' = status
       /\ service' = service
       /\ unit_file' = unit_file
       /\ scroll' = scroll
       /\ selected' = selected
       /\ last'.calls = 0]_vars

\* C23 (as claimed): the scroll offset is within 0 .. 65535 and the loop is
\* never aborted; each Down received in Details mode raises the offset by
\* exactly 1 and each PageDown by exactly 10.
C23_ScrollNeverOverflows ==
  /\ [](scroll \in 0 .. U16Max /\ pc # "panicked")
  /\ [][/\ (HandlingKey(PlainKey("Down")) /\ status = "Details") =>
             scroll' = scroll + 1
        /\ (HandlingKey(PlainKey("PageDown")) /\ status = "Details") =>
             scroll' = scroll + PageStep]_vars

====
